---- MODULE Spec2Model ----
(***************************************************************************)
(* duma: the concurrent, resumable HTTP download engine.                    *)
(*                                                                         *)
(* The model follows src/src/download.rs (http_download, the resume        *)
(* planner, DefaultEventsHandler), src/src/core.rs (HttpDownload::download,*)
(* concurrent_download, get_chunk_sizes, download_chunk) and               *)
(* src/src/utils.rs (get_file_handle).                                     *)
(*                                                                         *)
(* Scaling.  Offsets and byte counts are small naturals.  A record of the  *)
(* state log is the line "<byte_count>:<offset>\n"; with one-digit numbers *)
(* every line is four bytes long, so a write at record position p of a     *)
(* handle opened without O_APPEND replaces exactly record p.               *)
(* u64 arithmetic: a subtraction that goes below zero either panics        *)
(* (overflow checks on) or wraps (overflow checks off).  A wrapped value   *)
(* is kept as the negative integer it is congruent to modulo 2^64; it is   *)
(* larger than every offset of the model.                                  *)
(***************************************************************************)
EXTENDS Integers, Sequences, FiniteSets, TLC

\* ---------------------------------------------------------------- bounds
\* largest Content-Length the server reports
MaxLen == 4
\* number of process runs (invocations of the tool) in one behaviour
MaxSessions == 3
\* chunk size (512_000 in the program), scaled
chunk_size == 2
\* Config.max_retries (100 in the program), scaled
max_retries == 0
\* number of chunk fetches of one process that may end with an I/O error
MaxFailures == max_retries + 2
\* size of the worker pool
n_workers == 8
\* planner runs: largest Content-Length and most lines of a state log left
\* on disk by an interrupted run
PlanLen == 6
MaxRecs == 3
\* file names: most parameters of a Content-Disposition header and most
\* segments of a URL path
MaxParams == 3
MaxSegs == 2

\* ---------------------------------------------------------------- helpers
Min(a, b) == IF a <= b THEN a ELSE b

\* Option<T>: None is the empty sequence, Some(x) the one-element sequence
None == << >>
Some(x) == << x >>
unwrap_or(o, d) == IF o = None THEN d ELSE o[1]

\* the resource: the byte at offset k (never 0, which marks a hole in a file)
Src(k) == k + 1

\* bytes the server sends for 'Range: bytes=s-e': the last-byte-pos is
\* clamped to the end of the resource; an unsatisfiable or malformed range
\* yields no byte of the resource
body_end(s, e, ct) == IF s <= e /\ s < ct THEN Min(e, ct - 1) ELSE s - 1

\* ---------------------------------------------------------------- planner
\* a faulty variant: no chunk is pushed when the loop pushed none
get_chunk_sizes_bare(ct, cs) ==
    LET no_of_chunks == ct \div cs
    IN  [ k \in 1..no_of_chunks |->
            << (k - 1) * cs,
               IF k - 1 = no_of_chunks - 1 THEN ct ELSE (k * cs) - 1 >> ]

\* a faulty variant: the number of chunks is rounded up
get_chunk_sizes_ceil(ct, cs) ==
    LET no_of_chunks == (ct + cs - 1) \div cs
        sizes == [ k \in 1..no_of_chunks |->
                     << (k - 1) * cs,
                        IF k - 1 = no_of_chunks - 1 THEN ct ELSE (k * cs) - 1 >> ]
    IN  IF no_of_chunks = 0 THEN << <<0, ct>> >> ELSE sizes

\* HttpDownload::get_chunk_sizes
get_chunk_sizes(ct, cs) ==
    LET no_of_chunks == ct \div cs
        sizes == [ k \in 1..no_of_chunks |->
                     << (k - 1) * cs,
                        IF k - 1 = no_of_chunks - 1 THEN ct ELSE (k * cs) - 1 >> ]
    IN  IF no_of_chunks = 0 THEN << <<0, ct>> >> ELSE sizes

\* downloaded.sort_by_key(|a| a.1): stable insertion by offset
RECURSIVE insert_by_offset(_, _)
insert_by_offset(sorted, rec) ==
    IF sorted = << >> THEN << rec >>
    ELSE IF sorted[Len(sorted)][2] <= rec[2] THEN Append(sorted, rec)
    ELSE Append(insert_by_offset(SubSeq(sorted, 1, Len(sorted) - 1), rec),
                sorted[Len(sorted)])

RECURSIVE sort_by_offset(_)
sort_by_offset(log) ==
    IF log = << >> THEN << >>
    ELSE insert_by_offset(sort_by_offset(SubSeq(log, 1, Len(log) - 1)), log[Len(log)])

\* the 'for (bc, offset) in downloaded' loop of get_resume_chunk_offsets;
\* wrap: overflow checks off.  Result: [ok, i, chunks]; ok = FALSE is a panic
RECURSIVE resume_gaps(_, _, _, _)
resume_gaps(downloaded, i, chunks, wrap) ==
    IF downloaded = << >> THEN [ok |-> TRUE, i |-> i, chunks |-> chunks]
    ELSE LET bc == downloaded[1][1]
             offset == downloaded[1][2]
             rest == Tail(downloaded)
         IN  IF i = offset THEN resume_gaps(rest, offset + bc, chunks, wrap)
             ELSE IF offset = 0 /\ ~wrap
                  THEN [ok |-> FALSE, i |-> i, chunks |-> chunks]
                  ELSE resume_gaps(rest, offset + bc,
                                   Append(chunks, <<i, offset - 1>>), wrap)

\* the 'while (ct_len - i) > chunk_size' loop and the final push
RECURSIVE resume_tail(_, _, _, _)
resume_tail(i, chunks, ct, cs) ==
    IF (ct - i) > cs
    THEN resume_tail(i + cs, Append(chunks, <<i, i + cs - 1>>), ct, cs)
    ELSE Append(chunks, <<i, ct>>)

\* a line of the state log is << byte_count, offset >>; a line cut short
\* after its first number ("<byte_count>" or "<byte_count>:") is
\* << byte_count >>.  l[0].parse(), l[1].parse() (download.rs 49-51): on a
\* cut line l[1] is out of bounds (panic) or not a number (Err)
parse_ok(log) == \A r \in 1..Len(log) : Len(log[r]) = 2

\* get_resume_chunk_offsets: [ok, chunks].  'ct_len - i' below zero panics
\* with overflow checks and otherwise makes the while loop push chunks
\* without end; neither returns a plan
get_resume_chunk_offsets(log, ct, cs, wrap) ==
    IF ~parse_ok(log) THEN [ok |-> FALSE, chunks |-> << >>]
    ELSE
    LET g == resume_gaps(sort_by_offset(log), 0, << >>, wrap)
    IN  IF ~g.ok \/ g.i > ct THEN [ok |-> FALSE, chunks |-> << >>]
        ELSE [ok |-> TRUE, chunks |-> resume_tail(g.i, g.chunks, ct, cs)]

\* ---------------------------------------------------------------- files
RECURSIVE sum_byte_counts(_)
sum_byte_counts(log) ==
    IF log = << >> THEN 0 ELSE log[1][1] + sum_byte_counts(Tail(log))

\* fs::metadata(fname).len(): one past the last byte ever written
file_len(f) ==
    LET written == { k \in DOMAIN f : f[k] # 0 }
    IN  IF written = {} THEN 0
        ELSE (CHOOSE k \in written : \A m \in written : m <= k) + 1

\* calc_bytes_on_disk
calc_bytes_on_disk(stx, log, fx, f) ==
    IF stx THEN Some(sum_byte_counts(log))
    ELSE IF fx THEN Some(file_len(f)) ELSE None

\* get_file_handle(fname, resume_download, append).  O_APPEND only when
\* resuming an existing file with append set; otherwise the file is opened
\* (or created) for writing at position 0 and is not truncated
get_file_handle(resume, exists, append) ==
    [append |-> resume /\ exists /\ append, pos |-> 0]

\* BufWriter::new(handle)
BufWriter(h) == [append |-> h.append, pos |-> h.pos, buf |-> << >>]

\* a faulty variant: the seek is left out, the buffer lands at the start of
\* the file
write_at_noseek(f, offset, buf) ==
    [ k \in DOMAIN f |-> IF k < Len(buf) THEN buf[k + 1] ELSE f[k] ]

\* file.seek(SeekFrom::Start(offset)); file.write_all(buf)
write_at(f, offset, buf) ==
    [ k \in DOMAIN f |->
        IF k >= offset /\ k < offset + Len(buf) THEN buf[k - offset + 1] ELSE f[k] ]

\* a faulty variant: the two fields of the line are swapped
st_record_swapped(m) == << m.offset, m.bc >>

\* the line written by writeln!(file, "{}:{}", byte_count, offset)
st_record(m) == << m.bc, m.offset >>

\* writing one record through the state-log handle
write_record(log, h, rec) ==
    IF h.append \/ h.pos >= Len(log) THEN Append(log, rec)
    ELSE [log EXCEPT ![h.pos + 1] = rec]

\* ---------------------------------------------------------------- file name
\* Text is a sequence of characters.  The word 'filename' and the other
\* words of a header are written as one character each ("filename",
\* "attachment", "size"): no separator occurs inside them.

\* str.rsplit(sep).nth(0): what follows the last sep, all of it without one
rsplit_first(str, sep) ==
    LET at == { i \in 1..Len(str) : str[i] = sep }
    IN  IF at = {} THEN str
        ELSE SubSeq(str, (CHOOSE i \in at : \A j \in at : j <= i) + 1, Len(str))

\* str.split(sep).last() is the same text
split_last(str, sep) == rsplit_first(str, sep)

\* str.contains(pat)
contains(str, pat) ==
    \E i \in 1..(Len(str) - Len(pat) + 1) : SubSeq(str, i, i + Len(pat) - 1) = pat

RECURSIVE trim_start_matches(_, _)
trim_start_matches(str, c) ==
    IF str # << >> /\ str[1] = c THEN trim_start_matches(Tail(str), c) ELSE str

RECURSIVE trim_end_matches(_, _)
trim_end_matches(str, c) ==
    IF str # << >> /\ str[Len(str)] = c
    THEN trim_end_matches(SubSeq(str, 1, Len(str) - 1), c) ELSE str

\* u8::from_str_radix(hex_str, 16) on the hex digits of the model
HexDigits == { "0", "2", "a" }
hex_digit(c) == CASE c = "0" -> 0 [] c = "2" -> 2 [] c = "a" -> 10

\* the character of a byte below 0x80; a byte from 0x80 on is written
\* "\\x80": with the hex digits of the model it is never part of a valid
\* UTF-8 sequence
byte_char(b) ==
    CASE b = 32 -> " " [] b = 34 -> "\"" [] b = 42 -> "*"
      [] b = 0 -> "\\x00" [] b = 2 -> "\\x02" [] b = 10 -> "\\n"
      [] b >= 128 -> "\\x80"

\* the loop of decode_percent_encoded_data (utils.rs 46-58): [st, bytes];
\* st = "panic": an unwrap failed ('%' without two hex digits after it)
RECURSIVE unescape(_, _)
unescape(data, unescaped_bytes) ==
    IF data = << >> THEN [st |-> "ok", bytes |-> unescaped_bytes]
    ELSE IF data[1] = "%"
    THEN IF Len(data) < 3 \/ data[2] \notin HexDigits \/ data[3] \notin HexDigits
         THEN [st |-> "panic", bytes |-> << >>]
         ELSE unescape(SubSeq(data, 4, Len(data)),
                       Append(unescaped_bytes,
                              byte_char(16 * hex_digit(data[2]) + hex_digit(data[3]))))
    ELSE unescape(Tail(data), Append(unescaped_bytes, data[1]))

\* decode_percent_encoded_data: [st, val]; st = "err": String::from_utf8
\* fails
decode_percent_encoded_data(data) ==
    LET u == unescape(data, << >>)
    IN  IF u.st = "panic" THEN [st |-> "panic", val |-> << >>]
        ELSE IF \E i \in 1..Len(u.bytes) : u.bytes[i] = "\\x80"
        THEN [st |-> "err", val |-> << >>]
        ELSE [st |-> "ok", val |-> u.bytes]

\* the name 'index.html', one character
index_html == << "index.html" >>

\* the content_disposition of gen_filename (download.rs 77-102)
content_disposition(header) ==
    IF header = None THEN None
    ELSE IF ~contains(header[1], << "filename", "=" >>) THEN None
    ELSE LET x == trim_end_matches(
                    trim_start_matches(
                      rsplit_first(rsplit_first(header[1], ";"), "="), "\""), "\"")
         IN  IF x # << >> THEN Some(x) ELSE None

\* gen_filename(url, fname, headers) (download.rs 76-120): [st, name];
\* path is url.path(), file the FILE argument, header the value of the
\* Content-Disposition header
gen_filename(path, file, header) ==
    IF file # None THEN [st |-> "ok", name |-> file[1]]
    ELSE IF content_disposition(header) # None
    THEN [st |-> "ok", name |-> content_disposition(header)[1]]
    ELSE LET name == split_last(path, "/")
             d == decode_percent_encoded_data(name)
         IN  IF name = << >> THEN [st |-> "ok", name |-> index_html]
             ELSE IF d.st = "panic" THEN [st |-> "panic", name |-> << >>]
             ELSE IF d.st = "ok" THEN [st |-> "ok", name |-> d.val]
             ELSE [st |-> "ok", name |-> name]

\* ---------------------------------------------------------------- worker
\* a faulty variant: the whole chunk is reported, not its unfetched tail
failure_msg_whole(j) == << j.s, j.e >>

\* the message download_chunk sends on the errors channel
failure_msg(j) == << j.pos, j.e >>

\* a faulty variant: the loop is left one byte early
loop_done_early(c, t) == c + 1 >= t

\* the loop test of concurrent_download
loop_done(c, t) == c = t


\* ---------------------------------------------------------------- state
VARIABLES
    ct_len,       \* length of the resource
    server,       \* headers the server sends: [accept_ranges, content_length]
    nsess,        \* process runs started so far
    pc,           \* position of the main thread of the current process
    opts,         \* Config: resume, bytes_on_disk, chunk_sizes
    file_exists,  \* the destination file exists
    file,         \* its content, offset -> byte (0: never written)
    st_exists,    \* the '.st' state log exists
    st_log,       \* its records << byte_count, offset >>, in file order
    st_file,      \* DefaultEventsHandler.st_file: [append, pos]
    jobs,         \* the jobs handed to the worker pool, in submission order
    data,         \* the results channel (data_tx -> data_rx)
    errors,       \* the failure channel (errors_tx -> errors_rx)
    count,        \* concurrent_download: bytes received
    threshold,    \* concurrent_download: ct_len - bytes_on_disk
    retries,      \* HttpDownload.retries
    msg,          \* the result message being handled
    counted,      \* history: offset -> times added to count in this run
    nhandled,     \* history: failure messages received in this run
    file_w,       \* DefaultEventsHandler.file: [append, pos, buf]
    resp,         \* singlethread_download: offset of the next byte of the body
    args,         \* what the name is chosen from: [path, file, header]
    fname         \* the name gen_filename returned: [st, name]; None before

vars == << ct_len, server, nsess, pc, opts, file_exists, file, st_exists, st_log,
           st_file, jobs, data, errors, count, threshold, retries, msg,
           counted, nhandled, file_w, resp, args, fname >>

\* the choice of the file name
naming == << args, fname >>

\* the single-stream transfer of a process
single == << file_w, resp >>

disk == << file_exists, file, st_exists, st_log >>

Offsets == 0..(MaxLen - 1)

\* positions of the main thread at which a process is alive
Running == { "download", "concurrent", "recv", "log", "join", "finish", "single" }
\* positions inside the loop of concurrent_download
InLoop == { "recv", "log" }

NoOpts == [resume |-> FALSE, concurrent |-> FALSE, num_workers |-> 0,
           bytes_on_disk |-> None, chunk_sizes |-> None]
NoMsg == [bc |-> 0, offset |-> 0, buf |-> << >>]
NoHandle == [append |-> FALSE, pos |-> 0]
NoWriter == [append |-> FALSE, pos |-> 0, buf |-> << >>]
\* a server that advertises byte ranges and sends Content-Length
FullServer == [accept_ranges |-> TRUE, content_length |-> TRUE]
\* a URL without a path, no FILE argument, no Content-Disposition header
NoArgs == [path |-> << "/" >>, file |-> None, header |-> None]
ZeroCounted == [k \in Offsets |-> 0]

Init ==
    /\ ct_len \in 0..MaxLen
    /\ server = FullServer
    /\ nsess = 0
    /\ pc = "idle"
    /\ opts = NoOpts
    /\ file_exists = FALSE
    /\ file = [k \in Offsets |-> 0]
    /\ st_exists = FALSE
    /\ st_log = << >>
    /\ st_file = NoHandle
    /\ jobs = << >>
    /\ data = << >>
    /\ errors = << >>
    /\ count = 0
    /\ threshold = 0
    /\ retries = 0
    /\ msg = NoMsg
    /\ counted = ZeroCounted
    /\ nhandled = 0
    /\ file_w = NoWriter
    /\ resp = 0
    /\ args = NoArgs
    /\ fname = None

\* the memory of a process that is gone
Gone ==
    /\ opts' = NoOpts
    /\ st_file' = NoHandle
    /\ jobs' = << >>
    /\ data' = << >>
    /\ errors' = << >>
    /\ msg' = NoMsg
    /\ counted' = ZeroCounted
    /\ count' = 0
    /\ threshold' = 0
    /\ retries' = 0
    /\ file_w' = NoWriter
    /\ resp' = 0

\* ---------------------------------------------------------------- main thread
\* the Content-Length http_download reads from the headers: 0 when the
\* header is missing (download.rs 194-198)
header_ct_len == IF server.content_length THEN ct_len ELSE 0

\* a faulty variant: the transfer mode is not looked at
resume_planned_any(resume, concurrent) ==
    st_exists /\ resume /\ header_ct_len # 0

\* 'state_file_exists && resume_download && concurrent_download && ct_len != 0'
\* (download.rs 205-210)
resume_planned(resume, concurrent) ==
    st_exists /\ resume /\ concurrent /\ header_ct_len # 0

\* http_download (download.rs 169-235), up to the call of client.download():
\* the header request, the resume plan, bytes_on_disk and the construction of
\* DefaultEventsHandler, which opens (creates) the file and, in concurrent
\* mode, the state log.
\*   resume     : the 'continue' flag;
\*   concurrent : the 'singlethread' flag is absent;
\*   net        : the header request succeeds (otherwise http_download
\*                returns Err before any file is opened); the file name is
\*                then chosen by gen_filename (download.rs 187);
\*   wrap       : overflow checks are off in this build;
\*   num        : the NUM_CONNECTIONS argument, 8 when absent (download.rs
\*                181-185); it goes into Config.num_workers
http_download(resume, concurrent, net, wrap, num) ==
    /\ pc \notin Running
    /\ nsess < MaxSessions
    /\ nsess' = nsess + 1
    /\ count' = 0 /\ threshold' = 0 /\ retries' = 0 /\ nhandled' = 0
    /\ jobs' = << >> /\ data' = << >> /\ errors' = << >>
    /\ msg' = NoMsg /\ counted' = ZeroCounted
    /\ resp' = 0
    /\ UNCHANGED << args, ct_len, server, file >>
    /\ fname' = IF net THEN Some(gen_filename(args.path, args.file, args.header))
                ELSE None
    /\ IF ~net
       THEN /\ pc' = "noprobe"
            /\ opts' = NoOpts /\ st_file' = NoHandle /\ file_w' = NoWriter
            /\ UNCHANGED << file_exists, st_exists, st_log >>
       ELSE LET plan == get_resume_chunk_offsets(st_log, header_ct_len, chunk_size, wrap)
                planned == resume_planned(resume, concurrent)
                name == gen_filename(args.path, args.file, args.header)
            IN  IF name.st = "panic" \/ (planned /\ ~plan.ok)
                THEN /\ pc' = "panic"
                     /\ opts' = NoOpts /\ st_file' = NoHandle /\ file_w' = NoWriter
                     /\ UNCHANGED << file_exists, st_exists, st_log >>
                ELSE /\ pc' = "download"
                     /\ opts' = [resume |-> resume,
                                 concurrent |-> concurrent,
                                 num_workers |-> num,
                                 bytes_on_disk |->
                                    IF resume
                                    THEN calc_bytes_on_disk(st_exists, st_log,
                                                            file_exists, file)
                                    ELSE None,
                                 chunk_sizes |->
                                    IF planned THEN Some(plan.chunks) ELSE None]
                     /\ st_file' = IF concurrent
                                   THEN get_file_handle(resume, st_exists, TRUE)
                                   ELSE NoHandle
                     /\ st_exists' = (st_exists \/ concurrent)
                     /\ st_log' = (IF st_exists THEN st_log ELSE << >>)
                     /\ file_w' = BufWriter(get_file_handle(resume, file_exists,
                                                            ~concurrent))
                     /\ file_exists' = TRUE

\* DefaultEventsHandler::on_finish: fs::remove_file("<fname>.st")
on_finish ==
    /\ st_exists' = FALSE
    /\ st_log' = << >>

\* the Range header prep_headers puts into Config.headers: 'bytes=<n>-'
\* when the resume flag is set and calc_bytes_on_disk found n bytes
\* (download.rs 145-158); None: no Range header
range_header == opts.bytes_on_disk

\* a faulty variant: the Accept-Ranges header is not looked at
use_concurrent_flag == opts.concurrent

\* 'server_supports_bytes && self.opts.concurrent' (core.rs 204)
use_concurrent == server.accept_ranges /\ opts.concurrent

\* the GET carries the Range header (core.rs 183-195): with
\* server_supports_bytes it is put on the request only when !concurrent and
\* taken out of Config.headers; without, it stays in Config.headers, all of
\* which go onto the request
get_has_range ==
    /\ range_header # None
    /\ server.accept_ranges => ~opts.concurrent

\* The server's answer to the GET.  A server that advertises byte ranges
\* serves 'bytes=n-' from offset n and answers 416 when n is not below the
\* length of the resource; a server that does not advertise them ignores the
\* header and sends the whole body
body_start == IF get_has_range /\ server.accept_ranges THEN range_header[1] ELSE 0

\* a faulty variant: the status of the answer is not looked at
unsatisfiable_unchecked == FALSE

\* the answer to the GET is 416 Range Not Satisfiable (core.rs 197-199)
unsatisfiable ==
    get_has_range /\ server.accept_ranges /\ range_header[1] >= ct_len

\* HttpDownload::download (core.rs 168-219) up to the choice of the transfer.
\*   res = "neterr": the HEAD or the GET fails, download returns Err;
\*   res = "status": the GET answers with a non-success status:
\*                   on_failure_status, then on_finish, then Ok;
\*   res = "ok"    : success: concurrent_download or singlethread_download
download(res) ==
    /\ pc = "download"
    /\ res = "ok" => ~unsatisfiable
    /\ UNCHANGED << naming, ct_len, server, nsess, file_exists, file, nhandled >>
    /\ IF res = "ok"
       THEN /\ IF use_concurrent
               THEN pc' = "concurrent" /\ resp' = resp
               ELSE pc' = "single" /\ resp' = body_start
            /\ UNCHANGED << opts, st_exists, st_log, st_file, jobs, data, errors,
                            msg, counted, count, threshold, retries, file_w >>
       ELSE IF res = "status"
       THEN /\ pc' = "badstatus"
            /\ on_finish
            /\ Gone
       ELSE /\ pc' = "error"
            /\ Gone
            /\ UNCHANGED << st_exists, st_log >>

\* a pool job: offsets (s, e), start_offset (pos), where the thread stands
\* (st); history: the offsets sent on the results channel (out) and the
\* message sent on the failure channel (err)
new_job(offsets) ==
    [s |-> offsets[1], e |-> offsets[2], pos |-> offsets[1], st |-> "queued",
     out |-> {}, err |-> << >>]

\* concurrent_download (core.rs 241-266): without a Content-Length header
\* it bails out with Err; otherwise the plan, one pool job per chunk, the
\* threshold.  'ct_len - bytes_on_disk' below zero panics with overflow
\* checks and wraps without
concurrent_download(wrap) ==
    /\ pc = "concurrent"
    /\ LET chunk_sizes == unwrap_or(opts.chunk_sizes, get_chunk_sizes(ct_len, chunk_size))
           t == ct_len - unwrap_or(opts.bytes_on_disk, 0)
       IN  IF ~server.content_length
           THEN /\ pc' = "error"
                /\ Gone
           ELSE IF t < 0 /\ ~wrap
           THEN /\ pc' = "panic"
                /\ Gone
           ELSE /\ pc' = "recv"
                /\ jobs' = [k \in 1..Len(chunk_sizes) |-> new_job(chunk_sizes[k])]
                /\ threshold' = t
                /\ UNCHANGED << opts, st_file, data, errors, msg, counted, count,
                                retries, single >>
    /\ UNCHANGED << naming, ct_len, server, nsess, disk, nhandled >>


\* ---------------------------------------------------------------- workers
\* a job no thread of the pool has taken yet / a thread is running
Queued == { k \in 1..Len(jobs) : jobs[k].st = "queued" }
Active == { k \in 1..Len(jobs) : jobs[k].st = "reading" }

\* the jobs of this process that ended with a failure message (core.rs
\* 381-386); the model lets at most MaxFailures requests of a process fail
nfail == Cardinality({ k \in 1..Len(jobs) : jobs[k].st = "failed" })

\* bytes of the response body the job has not read yet
remaining(j) == body_end(j.s, j.e, ct_len) - j.pos + 1
\* 'let chunk_sz = offsets.1 - offsets.0': the size of the read buffer
chunk_sz(j) == j.e - j.s
\* the most bytes the next resp.read can return; 0: it returns Ok(0), the
\* loop breaks and the job ends without a message
readable(j) == Min(chunk_sz(j), remaining(j))

\* download_chunk, first part (core.rs 362-364, 379-386): a free thread of the
\* pool takes the oldest queued job and sends the ranged GET.
\*   sent = FALSE: send() fails, the job reports (start_offset, end_offset).
\* Otherwise the buffer size e - s is computed: when e < s it panics
\* (overflow checks) or wraps to a size no allocation can satisfy (a wrapped
\* e does the same); the thread panics and the job is lost without a message.
\* A job with nothing to read ends at its first read
worker_start(sent) ==
    /\ pc \in InLoop \cup { "join" }
    /\ Queued # {}
    /\ Cardinality(Active) < n_workers
    /\ LET k == CHOOSE q \in Queued : \A r \in Queued : q <= r
           j == jobs[k]
       IN  IF ~sent
           THEN /\ nfail < MaxFailures
                /\ errors' = Append(errors, failure_msg(j))
                /\ jobs' = [jobs EXCEPT ![k].st = "failed", ![k].err = failure_msg(j)]
           ELSE /\ jobs' = [jobs EXCEPT ![k].st =
                               IF j.e < j.s THEN "panicked"
                               ELSE IF readable(j) = 0 THEN "ok" ELSE "reading"]
                /\ UNCHANGED errors
    /\ UNCHANGED << naming, ct_len, server, single, nsess, pc, opts, disk, st_file, data, count, threshold,
                    retries, msg, counted, nhandled >>

\* a faulty variant: the worker writes what it read into the destination
\* file itself
worker_read_direct(k, n) ==
    /\ pc \in InLoop \cup { "join" }
    /\ k \in Active
    /\ n >= 1
    /\ n <= readable(jobs[k])
    /\ data' = Append(data, [bc |-> n, offset |-> jobs[k].pos,
                             buf |-> [b \in 1..n |-> Src(jobs[k].pos + b - 1)]])
    /\ file' = write_at(file, jobs[k].pos, [b \in 1..n |-> Src(jobs[k].pos + b - 1)])
    /\ jobs' = [jobs EXCEPT ![k].pos = @ + n,
                            ![k].st = IF n = remaining(jobs[k]) THEN "ok" ELSE @,
                            ![k].out = @ \cup (jobs[k].pos..(jobs[k].pos + n - 1))]
    /\ UNCHANGED << naming, ct_len, server, single, nsess, pc, opts, file_exists, st_exists,
                    st_log, st_file, errors, count, threshold, retries, msg,
                    counted, nhandled >>

\* a faulty variant: every message carries the chunk's first offset, the
\* cursor is not used
worker_read_from_start(k, n) ==
    /\ pc \in InLoop \cup { "join" }
    /\ k \in Active
    /\ n >= 1
    /\ n <= readable(jobs[k])
    /\ data' = Append(data, [bc |-> n, offset |-> jobs[k].s,
                             buf |-> [b \in 1..n |-> Src(jobs[k].pos + b - 1)]])
    /\ jobs' = [jobs EXCEPT ![k].pos = @ + n,
                            ![k].st = IF n = remaining(jobs[k]) THEN "ok" ELSE @,
                            ![k].out = @ \cup (jobs[k].pos..(jobs[k].pos + n - 1))]
    /\ UNCHANGED << naming, ct_len, server, single, nsess, pc, opts, disk, st_file, errors, count,
                    threshold, retries, msg, counted, nhandled >>

\* one turn of the read loop (core.rs 365-377): resp.read fills n >= 1 bytes
\* of the buffer; the job sends (byte_count, start_offset, buf) and advances
\* start_offset.  After the last byte of the body the next read returns 0 and
\* the job ends
worker_read(k, n) ==
    /\ pc \in InLoop \cup { "join" }
    /\ k \in Active
    /\ n >= 1
    /\ n <= readable(jobs[k])
    /\ data' = Append(data, [bc |-> n, offset |-> jobs[k].pos,
                             buf |-> [b \in 1..n |-> Src(jobs[k].pos + b - 1)]])
    /\ jobs' = [jobs EXCEPT ![k].pos = @ + n,
                            ![k].st = IF n = remaining(jobs[k]) THEN "ok" ELSE @,
                            ![k].out = @ \cup (jobs[k].pos..(jobs[k].pos + n - 1))]
    /\ UNCHANGED << naming, ct_len, server, single, nsess, pc, opts, disk, st_file, errors, count,
                    threshold, retries, msg, counted, nhandled >>

\* resp.read fails while bytes of the body are outstanding (core.rs 367,
\* 381-386): the job reports (start_offset, end_offset) and ends
worker_fail(k) ==
    /\ pc \in InLoop \cup { "join" }
    /\ k \in Active
    /\ readable(jobs[k]) > 0
    /\ nfail < MaxFailures
    /\ errors' = Append(errors, failure_msg(jobs[k]))
    /\ jobs' = [jobs EXCEPT ![k].st = "failed", ![k].err = failure_msg(jobs[k])]
    /\ UNCHANGED << naming, ct_len, server, single, nsess, pc, opts, disk, st_file, data, count, threshold,
                    retries, msg, counted, nhandled >>

\* ---------------------------------------------------------------- aggregator
\* a faulty variant: the buffer is not flushed, the bytes stay in the
\* BufWriter of the destination file
agg_recv_unflushed ==
    /\ pc = "recv"
    /\ ~loop_done(count, threshold)
    /\ data # << >>
    /\ msg' = Head(data)
    /\ data' = Tail(data)
    /\ count' = count + Head(data).bc
    /\ counted' = [k \in Offsets |->
                     IF k >= Head(data).offset /\ k < Head(data).offset + Head(data).bc
                     THEN counted[k] + 1 ELSE counted[k]]
    /\ pc' = "log"
    /\ UNCHANGED << naming, ct_len, server, single, nsess, opts, disk,
                    st_file, jobs, errors, threshold, retries, nhandled >>

\* loop top (core.rs 268-276): data_rx.recv(), 'count += byte_count', and the
\* first half of on_concurrent_content (download.rs 345-347): seek, write_all
\* and flush of the destination file
agg_recv ==
    /\ pc = "recv"
    /\ ~loop_done(count, threshold)
    /\ data # << >>
    /\ msg' = Head(data)
    /\ data' = Tail(data)
    /\ count' = count + Head(data).bc
    /\ counted' = [k \in Offsets |->
                     IF k >= Head(data).offset /\ k < Head(data).offset + Head(data).bc
                     THEN counted[k] + 1 ELSE counted[k]]
    /\ file' = write_at(file, Head(data).offset, Head(data).buf)
    /\ pc' = "log"
    /\ UNCHANGED << naming, ct_len, server, single, nsess, opts, file_exists, st_exists, st_log,
                    st_file, jobs, errors, threshold, retries, nhandled >>

\* on_max_retries (download.rs 371-384): both writers are flushed and the
\* process exits with status 0
on_max_retries ==
    /\ pc' = "exit0"
    /\ Gone

\* the second half of on_concurrent_content (download.rs 351-354): the record
\* is written to the state log and flushed; then
\* errors_rx.recv_timeout(1us) (core.rs 277-293).
\*   got = FALSE : no failure message is there, Err(_) => {}
\*   got = TRUE  : a failure message is taken
\*   exits = TRUE : the hook is DefaultEventsHandler, whose on_max_retries
\*                  ends the process (download.rs 383)
\*   exits = FALSE: the hook keeps the trait's on_max_retries, which returns
\*                  (core.rs 55); the code after the call goes on
agg_log(got, exits) ==
    /\ pc = "log"
    /\ got = (errors # << >>)
    /\ st_log' = write_record(st_log, st_file, st_record(msg))
    /\ UNCHANGED << naming, ct_len, server, nsess, file_exists, file, st_exists >>
    /\ IF ~got
       THEN /\ pc' = "recv"
            /\ msg' = NoMsg
            /\ st_file' = [st_file EXCEPT !.pos = IF st_file.append THEN 0 ELSE @ + 1]
            /\ UNCHANGED << opts, jobs, data, errors, count, threshold, retries,
                            counted, nhandled, single >>
       ELSE /\ nhandled' = nhandled + 1
            /\ IF retries > max_retries /\ exits
               THEN on_max_retries
               ELSE /\ retries' = retries + 1
                    /\ jobs' = Append(jobs, new_job(Head(errors)))
                    /\ errors' = Tail(errors)
                    /\ pc' = "recv"
                    /\ msg' = NoMsg
                    /\ st_file' = [st_file EXCEPT
                                     !.pos = IF st_file.append THEN 0 ELSE @ + 1]
                    /\ UNCHANGED << opts, data, counted, count, threshold, single >>

\* a faulty variant: the error is returned after on_finish has run
agg_write_error_finished(w) ==
    /\ pc = "recv"
    /\ ~loop_done(count, threshold)
    /\ data # << >>
    /\ w \in 0..Head(data).bc
    /\ file' = write_at(file, Head(data).offset, SubSeq(Head(data).buf, 1, w))
    /\ pc' = "error"
    /\ on_finish
    /\ Gone
    /\ UNCHANGED << naming, ct_len, server, nsess, file_exists, nhandled >>

\* loop top with a local I/O failure: data_rx.recv() (core.rs 271), then
\* on_concurrent_content returns Err from its first half (download.rs
\* 345-347), the seek, write_all or flush of the destination file having
\* failed after w bytes of the buffer reached the file.  The '?' at core.rs
\* 275 returns the error from concurrent_download and the '?' at 205 from
\* download, past on_finish (215-217); the process ends with an error
agg_write_error(w) ==
    /\ pc = "recv"
    /\ ~loop_done(count, threshold)
    /\ data # << >>
    /\ w \in 0..Head(data).bc
    /\ file' = write_at(file, Head(data).offset, SubSeq(Head(data).buf, 1, w))
    /\ pc' = "error"
    /\ Gone
    /\ UNCHANGED << naming, ct_len, server, nsess, file_exists, st_exists, st_log,
                    nhandled >>

\* on_concurrent_content returns Err from its second half (download.rs
\* 351-354): writeln! or flush of the state log failed; the error leaves
\* concurrent_download and download the same way, before
\* errors_rx.recv_timeout is reached.
\*   part = TRUE : the line was cut short after the byte count
\*   part = FALSE: nothing of the line reached the log
agg_log_error(part) ==
    /\ pc = "log"
    /\ st_log' = IF part THEN write_record(st_log, st_file, << msg.bc >>) ELSE st_log
    /\ pc' = "error"
    /\ Gone
    /\ UNCHANGED << naming, ct_len, server, nsess, file_exists, file, st_exists,
                    nhandled >>

\* 'if count == threshold { break }' (core.rs 268-270)
agg_break ==
    /\ pc = "recv"
    /\ loop_done(count, threshold)
    /\ pc' = "join"
    /\ UNCHANGED << naming, ct_len, server, single, nsess, opts, disk, st_file, jobs, data, errors,
                    count, threshold, retries, msg, counted, nhandled >>

\* worker_pool.join() returns once no job is queued or running; Ok(())
\* (core.rs 295-296)
agg_join ==
    /\ pc = "join"
    /\ Queued = {} /\ Active = {}
    /\ pc' = "finish"
    /\ UNCHANGED << naming, ct_len, server, single, nsess, opts, disk, st_file, jobs, data, errors,
                    count, threshold, retries, msg, counted, nhandled >>

\* back in download (core.rs 215-219): on_finish, Ok(()); the process ends
finish ==
    /\ pc = "finish"
    /\ pc' = "done"
    /\ on_finish
    /\ Gone
    /\ nhandled' = 0
    /\ UNCHANGED << naming, ct_len, server, nsess, file_exists, file >>

\* the exit status of a process that has ended: main.rs 253-257 (Ok: main
\* returns; Err: process::exit(1)), download.rs 383 (exit(0)); a panic of
\* the main thread ends the process with status 101
exit_status(p) ==
    CASE p \in { "done", "badstatus", "exit0" } -> 0
      [] p \in { "error", "noprobe" } -> 1
      [] p = "panic" -> 101

\* the process is killed
kill ==
    /\ pc \in Running
    /\ pc' = "killed"
    /\ Gone
    /\ nhandled' = 0
    /\ UNCHANGED << naming, ct_len, server, nsess, disk >>

\* ---------------------------------------------------------------- single stream
\* where the next write through DefaultEventsHandler.file lands
write_pos(f, w) == IF w.append THEN file_len(f) ELSE w.pos

\* the buffered bytes of the BufWriter reach the file
flushed(f, w) == write_at(f, write_pos(f, w), w.buf)

\* one turn of the loop of singlethread_download (core.rs 227-238) with
\* bcount = n > 0: send_content, on_content (download.rs 333-341), which
\* hands the bytes to the BufWriter.
\*   through = TRUE : the BufWriter passes its buffer and the bytes on to the
\*                    file;
\*   through = FALSE: it keeps them in its buffer
single_read(n, through) ==
    /\ pc = "single"
    /\ n >= 1
    /\ n <= Min(chunk_size, ct_len - resp)
    /\ LET content == [b \in 1..n |-> Src(resp + b - 1)]
           w == [file_w EXCEPT !.buf = @ \o content]
       IN  IF through
           THEN /\ file' = flushed(file, w)
                /\ file_w' = [w EXCEPT !.pos = IF w.append THEN 0 ELSE @ + Len(w.buf),
                                       !.buf = << >>]
           ELSE /\ file_w' = w
                /\ file' = file
    /\ resp' = resp + n
    /\ UNCHANGED << naming, ct_len, server, nsess, pc, opts, file_exists, st_exists, st_log,
                    st_file, jobs, data, errors, count, threshold, retries, msg,
                    counted, nhandled >>

\* resp.read fails: singlethread_download and download return Err, on_finish
\* is not called; the handler is dropped and its BufWriter flushed
single_fail ==
    /\ pc = "single"
    /\ pc' = "error"
    /\ file' = flushed(file, file_w)
    /\ Gone
    /\ UNCHANGED << naming, ct_len, server, nsess, file_exists, st_exists, st_log, nhandled >>

\* the read returns 0 at the end of the body: the loop breaks, download calls
\* on_finish and returns Ok; the handler is dropped and its BufWriter flushed
single_finish ==
    /\ pc = "single"
    /\ resp >= ct_len
    /\ pc' = "done"
    /\ file' = flushed(file, file_w)
    /\ on_finish
    /\ Gone
    /\ UNCHANGED << naming, ct_len, server, nsess, file_exists, nhandled >>

\* ---------------------------------------------------------------- specification
Workers ==
    \/ \E sent \in BOOLEAN : worker_start(sent)
    \/ \E k \in Active : \E n \in 1..readable(jobs[k]) : worker_read(k, n)
    \/ \E k \in Active : worker_fail(k)

Aggregator ==
    \/ agg_recv
    \/ \E got \in BOOLEAN : agg_log(got, TRUE)
    \/ agg_break
    \/ agg_join
    \/ finish

Next ==
    \/ \E resume \in BOOLEAN, net \in BOOLEAN, wrap \in BOOLEAN :
          http_download(resume, TRUE, net, wrap, n_workers)
    \/ \E res \in { "ok", "status", "neterr" } : download(res)
    \/ \E wrap \in BOOLEAN : concurrent_download(wrap)
    \/ Workers
    \/ Aggregator
    \/ kill

Spec == Init /\ [][Next]_vars


\* ---------------------------------------------------------------- transfer modes
\* Every kind of server and both transfer modes.  The choice of the transfer
\* and the single-stream transfer are followed step by step; of a concurrent
\* transfer only the submission of the jobs is, its workers do not run.
\* The file is long enough for what MaxSessions appending runs can write.
FileSize == MaxSessions * MaxLen

InitModes ==
    /\ ct_len \in 0..MaxLen
    /\ server \in [accept_ranges : BOOLEAN, content_length : BOOLEAN]
    /\ nsess = 0
    /\ pc = "idle"
    /\ opts = NoOpts
    /\ file_exists = FALSE
    /\ file = [k \in 0..(FileSize - 1) |-> 0]
    /\ st_exists = FALSE
    /\ st_log = << >>
    /\ st_file = NoHandle
    /\ jobs = << >>
    /\ data = << >>
    /\ errors = << >>
    /\ count = 0
    /\ threshold = 0
    /\ retries = 0
    /\ msg = NoMsg
    /\ counted = ZeroCounted
    /\ nhandled = 0
    /\ file_w = NoWriter
    /\ resp = 0
    /\ args = NoArgs
    /\ fname = None

NextModes ==
    \/ \E resume \in BOOLEAN, concurrent \in BOOLEAN, net \in BOOLEAN, wrap \in BOOLEAN :
          http_download(resume, concurrent, net, wrap, n_workers)
    \/ \E res \in { "ok", "status", "neterr" } : download(res)
    \/ \E wrap \in BOOLEAN : concurrent_download(wrap)
    \/ \E n \in 1..MaxLen, through \in BOOLEAN : single_read(n, through)
    \/ single_fail
    \/ single_finish
    \/ kill

SpecModes == InitModes /\ [][NextModes]_vars

\* ---------------------------------------------------------------- fault-free runs
\* Runs without the resume flag in which the server answers every request
\* and serves every range, and no process is killed.  The threads of a live
\* process are scheduled fairly; starting a process is left to the user.
MainOK ==
    \/ download("ok")
    \/ concurrent_download(FALSE)
    \/ agg_recv
    \/ agg_log(FALSE, TRUE)
    \/ agg_break
    \/ agg_join
    \/ finish

WorkersOK ==
    \/ worker_start(TRUE)
    \/ \E k \in 1..(MaxLen + 1), n \in 1..(MaxLen + 1) : worker_read(k, n)

NextOK ==
    \/ http_download(FALSE, TRUE, TRUE, FALSE, n_workers)
    \/ MainOK
    \/ WorkersOK

SpecOK == Init /\ [][NextOK]_vars /\ WF_vars(MainOK) /\ WF_vars(WorkersOK)

\* ---------------------------------------------------------------- library hooks
\* The engine driven through the library (HttpDownload::new, events_hook,
\* download) with a hook that writes as DefaultEventsHandler does and keeps
\* the trait's on_max_retries.  Fresh runs; requests may fail.
AggregatorHooks ==
    \/ agg_recv
    \/ \E got \in BOOLEAN : agg_log(got, FALSE)
    \/ agg_break
    \/ agg_join
    \/ finish

NextHooks ==
    \/ http_download(FALSE, TRUE, TRUE, FALSE, n_workers)
    \/ download("ok")
    \/ concurrent_download(FALSE)
    \/ Workers
    \/ AggregatorHooks

SpecHooks == Init /\ [][NextHooks]_vars

\* ---------------------------------------------------------------- connections
\* Fresh concurrent runs started with a NUM_CONNECTIONS argument; requests
\* may fail and failed ranges are re-submitted.
Connections == { 1, 2, n_workers }

NextPool ==
    \/ \E num \in Connections : http_download(FALSE, TRUE, TRUE, FALSE, num)
    \/ download("ok")
    \/ concurrent_download(FALSE)
    \/ Workers
    \/ Aggregator

SpecPool == Init /\ [][NextPool]_vars

\* ---------------------------------------------------------------- local I/O
\* Concurrent runs without the resume flag in which requests may fail and a
\* write to the destination file or to the state log may fail; one run fewer
\* than elsewhere is followed.
NextIO ==
    \/ nsess < MaxSessions - 1 /\ http_download(FALSE, TRUE, TRUE, FALSE, n_workers)
    \/ download("ok")
    \/ concurrent_download(FALSE)
    \/ Workers
    \/ Aggregator
    \/ \E w \in 0..MaxLen : agg_write_error(w)
    \/ \E part \in BOOLEAN : agg_log_error(part)

SpecIO == Init /\ [][NextIO]_vars

\* ---------------------------------------------------------------- file names
\* Runs of the tool on URLs, FILE arguments and Content-Disposition headers
\* of every shape; only the choice of the name is followed.
join(strs, sep) ==
    LET RECURSIVE j(_)
        j(k) == IF k = 0 THEN << >>
                ELSE IF k = 1 THEN strs[1]
                ELSE j(k - 1) \o << sep >> \o strs[k]
    IN  j(Len(strs))

SeqsUpTo(S, n) == UNION { [1..k -> S] : k \in 1..n }

\* parameters of a Content-Disposition header
Params == { << "attachment" >>,
            << "filename", "=", "\"", "a", "\"" >>,
            << "filename", "=", "\"", "\"" >>,
            << "size", "=", "3" >> }
Headers == { join(ps, ";") : ps \in SeqsUpTo(Params, MaxParams) }

\* segments of a URL path
Segments == { << >>, << "b" >>, << "b", "%", "2", "0", "c" >>, << "%", "a", "0" >>,
              << "b", "%" >> }
Paths == { << "/" >> \o join(segs, "/") : segs \in SeqsUpTo(Segments, MaxSegs) }

InitName ==
    /\ args \in [path : Paths, file : { None, Some(<< "o" >>) },
                  header : { None } \cup { Some(h) : h \in Headers }]
    /\ fname = None
    /\ ct_len = MaxLen
    /\ server = FullServer
    /\ nsess = 0
    /\ pc = "idle"
    /\ opts = NoOpts
    /\ file_exists = FALSE
    /\ file = [k \in Offsets |-> 0]
    /\ st_exists = FALSE
    /\ st_log = << >>
    /\ st_file = NoHandle
    /\ jobs = << >>
    /\ data = << >>
    /\ errors = << >>
    /\ count = 0
    /\ threshold = 0
    /\ retries = 0
    /\ msg = NoMsg
    /\ counted = ZeroCounted
    /\ nhandled = 0
    /\ file_w = NoWriter
    /\ resp = 0

NextName ==
    \E net \in BOOLEAN : http_download(FALSE, TRUE, net, FALSE, n_workers)

SpecName == InitName /\ [][NextName]_vars

\* ---------------------------------------------------------------- byte sets
\* bytes a list of inclusive chunks (s, e) asks for; a wrapped end lies
\* beyond every offset
Requested(chunks) ==
    { k \in 0..PlanLen : \E c \in 1..Len(chunks) :
        /\ chunks[c][1] <= k
        /\ (k <= chunks[c][2] \/ chunks[c][2] < 0) }

\* bytes the records of a state log describe
Covered(log) ==
    { k \in 0..PlanLen : \E r \in 1..Len(log) :
        Len(log[r]) = 2 /\ log[r][2] <= k /\ k < log[r][2] + log[r][1] }

\* bytes of the destination file that have been written
Written == { k \in Offsets : file[k] # 0 }

\* ---------------------------------------------------------------- planner runs
\* The planners on larger resources.  The disk is what an interrupted fresh
\* run left behind: each of its workers had delivered some first bytes of
\* its chunk, in reads no larger than its buffer, and the aggregator had
\* written and logged them (download.rs 343-356) in the order they arrived.
\* Then a new process starts and plans; no worker of it runs.
InitPlan ==
    /\ ct_len \in 0..PlanLen
    /\ server = FullServer
    /\ nsess = 0
    /\ pc = "idle"
    /\ opts = NoOpts
    /\ file_exists = FALSE
    /\ file = [k \in 0..(PlanLen - 1) |-> 0]
    /\ st_exists = FALSE
    /\ st_log = << >>
    /\ st_file = NoHandle
    /\ jobs = << >>
    /\ data = << >>
    /\ errors = << >>
    /\ count = 0
    /\ threshold = 0
    /\ retries = 0
    /\ msg = NoMsg
    /\ counted = ZeroCounted
    /\ nhandled = 0
    /\ file_w = NoWriter
    /\ resp = 0
    /\ args = NoArgs
    /\ fname = None

\* the last line of the state log is cut short
torn(log) == log # << >> /\ Len(log[Len(log)]) < 2

\* the message (bc, offset, buf) is one the earlier run can have handled
\* next: it lies in a chunk of the fresh plan, fits the buffer of that
\* chunk's job, and starts where the job stood
earlier_msg(bc, offset) ==
    LET plan == get_chunk_sizes(ct_len, chunk_size)
    IN  /\ bc >= 1
        /\ offset + bc <= ct_len
        /\ \E c \in 1..Len(plan) :
              /\ plan[c][1] <= offset
              /\ offset + bc - 1 <= plan[c][2]
              /\ bc <= plan[c][2] - plan[c][1]
              /\ \A k \in plan[c][1]..(offset - 1) : k \in Covered(st_log)
        /\ \A k \in offset..(offset + bc - 1) : k \notin Covered(st_log)

\* on_concurrent_content of the earlier run (download.rs 343-356): the
\* buffer is written to the file and the record appended to the state log.
\*   cut = TRUE: the machine went down while the line was written; the
\*               line ends after the byte count
earlier_record(bc, offset, cut) ==
    /\ pc = "idle"
    /\ nsess = 0
    /\ Len(st_log) < MaxRecs
    /\ ~torn(st_log)
    /\ earlier_msg(bc, offset)
    /\ file_exists' = TRUE
    /\ file' = write_at(file, offset, [b \in 1..bc |-> Src(offset + b - 1)])
    /\ st_exists' = TRUE
    /\ st_log' = Append(st_log, IF cut THEN << bc >>
                                 ELSE st_record([bc |-> bc, offset |-> offset]))
    /\ UNCHANGED << naming, ct_len, server, single, nsess, pc, opts, st_file, jobs, data, errors, count,
                    threshold, retries, msg, counted, nhandled >>

NextPlan ==
    \/ \E bc \in 1..PlanLen, offset \in 0..PlanLen, cut \in BOOLEAN :
          earlier_record(bc, offset, cut)
    \/ \E resume \in BOOLEAN, wrap \in BOOLEAN : http_download(resume, TRUE, TRUE, wrap, n_workers)
    \/ download("ok")
    \/ \E wrap \in BOOLEAN : concurrent_download(wrap)

SpecPlan == InitPlan /\ [][NextPlan]_vars

\* ---------------------------------------------------------------- properties
\* the destination file is byte-identical to the resource
FileIsSource ==
    /\ file_exists
    /\ \A k \in Offsets : file[k] = IF k < ct_len THEN Src(k) ELSE 0

\* C1: round trip.  Whenever a fresh concurrent download has started against
\* a server that serves every range, the process eventually ends with Ok, the
\* destination file then equals the resource and the state log is gone.
C1_RoundTrip ==
    (pc = "download") ~> (pc = "done" /\ FileIsSource /\ ~st_exists)

\* a finished download of the largest resource: several chunks, several
\* workers, every byte written
C1_Witness ==
    /\ pc = "done"
    /\ ct_len = MaxLen
    /\ FileIsSource
    /\ ~st_exists


\* C2: resume plan.  The plan computed from the state log asks for no byte
\* a record covers and for every byte of [0, total_size) no record covers.
C2_ResumePlan ==
    (pc = "download" /\ opts.chunk_sizes # None) =>
        \A k \in 0..(ct_len - 1) :
            (k \in Covered(st_log)) <=> (k \notin Requested(opts.chunk_sizes[1]))

\* the chunks of the jobs submitted so far
JobChunks == [k \in 1..Len(jobs) |-> << jobs[k].s, jobs[k].e >>]

\* C3: fresh plan.  The inclusive chunks of get_chunk_sizes are pairwise
\* disjoint and their union is exactly [0, total_size).
C3_FreshPlanPartition ==
    (pc \in InLoop /\ opts.chunk_sizes = None /\ retries = 0) =>
        /\ Requested(JobChunks) = 0..(ct_len - 1)
        /\ \A a, b \in 1..Len(jobs) :
              a # b => Requested(<< JobChunks[a] >>) \cap Requested(<< JobChunks[b] >>) = {}

\* C4: retry bound.  on_max_retries fires while the aggregator handles the
\* (max_retries + 1)-th failure message of the run.
C4_RetryBound ==
    (pc = "exit0") => (nhandled = max_retries + 1)

\* C5: no double counting.  No offset of the resource is added to the byte
\* counter (and forwarded to on_concurrent_content) more than once in a run.
C5_NoDoubleCount ==
    \A k \in Offsets : counted[k] <= 1

\* a failed job had sent bytes before it failed, its tail was re-submitted,
\* and the run received every byte it waited for
C5_Witness ==
    /\ pc = "join"
    /\ retries >= 1
    /\ count = ct_len
    /\ \E k \in 1..Len(jobs) : jobs[k].st = "failed" /\ jobs[k].out # {}
    /\ \A k \in Offsets : k < ct_len => counted[k] = 1

\* C6 as stated: in every state the records of the log describe exactly the
\* bytes written to the destination file.
C6_LogEqualsFile ==
    st_exists => (Covered(st_log) = Written)

\* C6, amended: every byte a record of the log describes has been written to
\* the destination file.
C6_LogWithinFile ==
    Covered(st_log) \subseteq Written

\* a crash point between the write of the file and the append of the log: a
\* killed process left more bytes in the file than its log describes
C6_Witness ==
    /\ pc = "killed"
    /\ st_log # << >>
    /\ Covered(st_log) # Written

\* no thread of the process can take a step except the aggregator, which
\* waits in data_rx.recv()
Quiescent ==
    /\ pc = "recv"
    /\ data = << >>
    /\ errors = << >>
    /\ Queued = {} /\ Active = {}

\* C7: idempotence of resume.  A run with the resume flag that found the
\* state log of an interrupted run, against a server that never fails, ends
\* with the file an uninterrupted run produces: once all its workers are
\* through and all their messages are handled, it has every byte it waited
\* for and the file equals the resource.
C7_ResumeConverges ==
    (Quiescent /\ opts.resume /\ opts.chunk_sizes # None /\ nfail = 0) =>
        (count = threshold /\ FileIsSource)

\* C8: the state log survives every abort (an error return, retry
\* exhaustion, a non-success status of the GET).
C8_LogKeptOnAbort ==
    (pc \in { "error", "exit0", "badstatus" }) => st_exists

\* C9: concurrent_download returns Ok only with count = threshold, and once
\* count = threshold the process receives no further result message.
C9_BreakAtThreshold ==
    /\ [](pc \in { "join", "finish" } => count = threshold)
    /\ [][ (pc \in { "recv", "log", "join", "finish" } /\ count = threshold
              /\ pc' \in Running) => count' = count ]_vars

\* the loop was left after the last of several result messages
C9_Witness ==
    /\ pc = "finish"
    /\ count = threshold
    /\ count >= 2

\* the first offset of a job's chunk that it has not sent
FirstUnsent(j) == CHOOSE k \in j.s..(MaxLen + 1) :
                     /\ k \notin j.out
                     /\ \A m \in j.s..(k - 1) : m \in j.out

\* C10: a failing job reports (s', chunk_end), s' being the first offset of
\* its chunk it has not sent on the results channel; it sends nothing more.
C10_FailureReportsTail ==
    \A k \in 1..Len(jobs) :
        jobs[k].st = "failed" =>
            /\ jobs[k].err = << FirstUnsent(jobs[k]), jobs[k].e >>
            /\ jobs[k].pos = FirstUnsent(jobs[k])

\* a job failed after it had sent a part of its chunk
C10_Witness ==
    \E k \in 1..Len(jobs) :
        /\ jobs[k].st = "failed"
        /\ jobs[k].out # {}
        /\ jobs[k].err[1] > jobs[k].s
        /\ jobs[k].err[1] <= jobs[k].e

\* a process that has just submitted the jobs of a fresh plan
FreshPlanned == pc = "recv" /\ opts.chunk_sizes = None /\ retries = 0

C12_SmallIsOneChunk ==
    (FreshPlanned /\ ct_len < chunk_size) =>
        /\ Len(jobs) = 1
        /\ jobs[1].s = 0
        /\ \A k \in 0..(ct_len - 1) : k \in Requested(JobChunks)

\* the fresh plan of a non-empty resource smaller than a chunk
C12_Witness ==
    /\ FreshPlanned
    /\ ct_len >= 1
    /\ ct_len < chunk_size
    /\ Len(jobs) = 1

\* C13: for total_size = 1,000,000 and chunk_size = 512,000 the fresh plan
\* is the two chunks (0,511999) and (512000,999999), in that order.
C13_FreshScenario ==
    (pc = "idle") =>
        get_chunk_sizes(1000000, 512000) = << <<0, 511999>>, <<512000, 999999>> >>

\* C14: for a state log with the records "100:0" and "200:300" and
\* total_size = 1000 the resume plan is the two chunks (100,299) and (500,999).
C14_ResumeScenario ==
    (pc = "idle") =>
        LET plan == get_resume_chunk_offsets(<< <<100, 0>>, <<200, 300>> >>,
                                             1000, 512000, FALSE)
        IN  plan.ok /\ plan.chunks = << <<100, 299>>, <<500, 999>> >>

\* a process that was started with the resume flag and has a plan computed
\* from the state log
ResumePlanned == pc = "download" /\ opts.chunk_sizes # None

\* C15: when the records of the state log cover all of [0, total_size), the
\* resume plan is empty and no job is handed to the worker pool.
C15_FullLogEmptyPlan ==
    /\ (ResumePlanned /\ Covered(st_log) = 0..(ct_len - 1)) =>
          opts.chunk_sizes[1] = << >>
    /\ (pc = "recv" /\ opts.chunk_sizes # None /\ Covered(st_log) = 0..(ct_len - 1)) =>
          jobs = << >>

\* bytes of the resource an inclusive chunk asks for
span(chunk) == Cardinality(Requested(<< chunk >>) \cap 0..(ct_len - 1))

\* C16: every chunk of a resume plan, a gap between two records included,
\* spans at most chunk_size bytes, and the last chunk ends at total_size.
C16_ResumeChunksBounded ==
    ResumePlanned =>
        LET plan == opts.chunk_sizes[1]
        IN  /\ \A c \in 1..Len(plan) : span(plan[c]) <= chunk_size
            /\ plan # << >> => plan[Len(plan)][2] = ct_len

\* the complete lines of a state log
complete(log) == IF torn(log) THEN SubSeq(log, 1, Len(log) - 1) ELSE log

\* C17: a state log whose last line is cut short is read as if that line
\* were not there: resume does not fail, and the plan and bytes_on_disk are
\* those of the complete records.
C17_TornLineDiscarded ==
    torn(st_log) =>
        /\ pc # "panic"
        /\ (pc = "download" /\ opts.resume) =>
              /\ opts.chunk_sizes =
                    Some(get_resume_chunk_offsets(complete(st_log), ct_len,
                                                  chunk_size, FALSE).chunks)
              /\ opts.bytes_on_disk = Some(sum_byte_counts(complete(st_log)))

\* positions of a process inside concurrent_download or after it
InConcurrent == { "concurrent", "recv", "log", "join", "finish" }

\* C18: when the HEAD response has no 'Accept-Ranges: bytes', no process
\* enters concurrent_download or submits a chunk job, whatever its concurrent
\* option; after a successful GET it runs singlethread_download, which hands
\* the body to on_content in order and returns Ok only at the end of the body.
C18_NoRangesSingleStream ==
    /\ [](~server.accept_ranges => (pc \notin InConcurrent /\ jobs = << >>))
    /\ [][ (~server.accept_ranges /\ pc = "download" /\ pc' \in Running)
              => pc' = "single" ]_vars
    /\ [][ (~server.accept_ranges /\ pc = "single" /\ pc' = "single") =>
              LET content == [b \in 1..(resp' - resp) |-> Src(resp + b - 1)]
              IN  /\ resp' > resp
                  /\ \/ file_w'.buf = file_w.buf \o content /\ file' = file
                     \/ /\ file_w'.buf = << >>
                        /\ file' = write_at(file, write_pos(file, file_w),
                                            file_w.buf \o content) ]_vars
    /\ [][ (~server.accept_ranges /\ pc = "single" /\ pc' = "done")
              => resp = ct_len ]_vars

\* a process in concurrent mode has streamed the whole body of a server
\* without range support
C18_Witness ==
    /\ ~server.accept_ranges
    /\ opts.concurrent
    /\ pc = "single"
    /\ ct_len >= 2
    /\ resp = ct_len

\* C19: when the server sends no Content-Length, also with range support
\* and concurrent mode no chunk job is submitted and the transfer chosen
\* after a successful GET does not give up with an error before it has read
\* the body.
C19_NoLengthSingleStream ==
    /\ [](~server.content_length => jobs = << >>)
    /\ [][ (~server.content_length /\ pc = "concurrent") => pc' # "error" ]_vars

\* C20: the process gets a plan computed from the state log if and only if
\* the '.st' file exists, the resume flag is set, concurrent mode is on and
\* the reported content length is not zero.
C20_ResumePlanIff ==
    [][ (pc # "download" /\ pc' = "download") =>
          ( (opts'.chunk_sizes # None) <=>
            ( /\ st_exists
              /\ opts'.resume
              /\ opts'.concurrent
              /\ server.content_length
              /\ ct_len # 0 ) ) ]_vars

\* a process resumes in concurrent mode over the state log of a killed one
C20_Witness ==
    /\ pc = "download"
    /\ opts.resume /\ opts.concurrent
    /\ opts.chunk_sizes # None

\* C21: retry exhaustion is terminal.  A failure message taken while the
\* retry counter exceeds max_retries (on_max_retries is invoked) adds no job
\* to the pool, and after that invocation the process submits no job and
\* counts no further result message.
C21_ExhaustionTerminal ==
    /\ [][ (pc = "log" /\ retries > max_retries /\ pc' \in Running)
              => Len(jobs') = Len(jobs) ]_vars
    /\ [][ (pc \in Running /\ retries > max_retries + 1 /\ pc' \in Running)
              => (Len(jobs') = Len(jobs) /\ count' = count) ]_vars

\* a resumed single-stream run whose 'Range: bytes=n-' starts at or beyond
\* the end of the resource: the server answers the GET with 416
Answer416 ==
    /\ pc = "download"
    /\ server.accept_ranges
    /\ ~opts.concurrent
    /\ opts.bytes_on_disk # None
    /\ opts.bytes_on_disk[1] >= ct_len

\* C22: a 416 answer to a resume attempt is a successful no-op: the process
\* takes the failure-status branch, hands no content to the hook, leaves the
\* bytes of the destination file as they are and ends with Ok (status 0).
C22_RangeNotSatisfiableNoOp ==
    [][ (Answer416 /\ pc' \notin { "error", "killed" }) =>
          /\ pc' = "badstatus"
          /\ exit_status(pc') = 0
          /\ file' = file
          /\ file_exists' = file_exists
          /\ resp' = 0 /\ file_w'.buf = << >> /\ data' = << >> ]_vars

\* a run resumes over a file that already holds the whole resource
C22_Witness ==
    /\ Answer416
    /\ ct_len >= 2
    /\ file_len(file) = ct_len
    /\ \A k \in 0..(ct_len - 1) : file[k] = Src(k)

\* C23: at every moment of a concurrent session at most N chunk fetches are
\* in flight, N being the configured connection count.
C23_PoolBounded ==
    (pc \in InConcurrent) => Cardinality(Active) <= opts.num_workers

\* C24: single writer.  A step of a worker (a job starts, reads, fails or
\* ends) leaves the destination file and the state log as they are; during
\* a concurrent session the file changes only in the aggregator's step after
\* data_rx.recv() and the log only in its following step, never both at once.
C24_SingleWriter ==
    /\ [][ (pc \in InConcurrent /\ Len(jobs') = Len(jobs) /\ jobs' # jobs)
              => UNCHANGED disk ]_vars
    /\ [][ (pc \in InConcurrent /\ file' # file)
              => (pc = "recv" /\ pc' = "log" /\ st_log' = st_log) ]_vars
    /\ [][ (pc \in InConcurrent /\ pc' \in Running /\ st_log' # st_log)
              => (pc = "log" /\ file' = file) ]_vars

\* the aggregator has written a buffer while two workers were fetching
C24_Witness ==
    /\ pc = "log"
    /\ msg.bc >= 1
    /\ Cardinality(Active) >= 2
    /\ Written # {}

\* C25: a failure of the metadata probe (the header request of
\* http_download, the HEAD request of download) ends the process with a
\* non-zero status before it has opened or created the destination file or
\* the state log: after the first run of the tool ended that way, neither
\* file exists.
C25_ProbeFailureBeforeFiles ==
    (nsess = 1 /\ pc \in { "noprobe", "error" }) =>
        /\ exit_status(pc) # 0
        /\ ~file_exists
        /\ ~st_exists

\* the parameters of a Content-Disposition header
RECURSIVE split(_, _)
split(str, sep) ==
    LET at == { i \in 1..Len(str) : str[i] = sep }
    IN  IF at = {} THEN << str >>
        ELSE LET i == CHOOSE x \in at : \A y \in at : x <= y
             IN  << SubSeq(str, 1, i - 1) >> \o split(SubSeq(str, i + 1, Len(str)), sep)

\* the value of the header's filename parameter, without its quotes; empty
\* when the header has no such parameter
filename_value(header) ==
    LET ps == split(header, ";")
        at == { i \in 1..Len(ps) : Len(ps[i]) >= 2 /\ SubSeq(ps[i], 1, 2) = << "filename", "=" >> }
    IN  IF at = {} THEN << >>
        ELSE LET p == ps[CHOOSE x \in at : \A y \in at : x <= y]
             IN  trim_end_matches(trim_start_matches(SubSeq(p, 3, Len(p)), "\""), "\"")

\* C26: the name is chosen by fixed precedence: the FILE argument; else the
\* non-empty value of the filename parameter of Content-Disposition; else
\* the percent-decoded last segment of the URL path when it is not empty;
\* else 'index.html'.
C26_NamePrecedence ==
    (fname # None) =>
        LET seg == split_last(args.path, "/")
            d == decode_percent_encoded_data(seg)
        IN  /\ fname[1].st = "ok"
            /\ fname[1].name =
                  IF args.file # None THEN args.file[1]
                  ELSE IF args.header # None /\ filename_value(args.header[1]) # << >>
                  THEN filename_value(args.header[1])
                  ELSE IF seg # << >> THEN (IF d.st = "ok" THEN d.val ELSE seg)
                  ELSE index_html

\* the aggregator waits in data_rx.recv() and no job is queued or running:
\* no thread of the process will send on the results channel again
Blocked ==
    /\ pc = "recv"
    /\ ~loop_done(count, threshold)
    /\ data = << >>
    /\ Queued = {} /\ Active = {}

\* C27: every failure message is received by the aggregator: the process is
\* never left with a failure message pending on the failure channel while
\* the aggregator is blocked for good on the results channel.
C27_FailureNeverStranded ==
    ~(Blocked /\ errors # << >>)

\* bytes of the resource in the inclusive range [s, e]
in_range(s, e) == { b \in s..e : b < ct_len }

\* C28: a job for a chunk (s, e) with s <= e that ended without an I/O error
\* has sent result messages whose byte counts sum to the number of bytes of
\* the resource in [s, e]; also when s = e.
C28_ChunkFullyFetched ==
    \A k \in 1..Len(jobs) :
        (jobs[k].st = "ok" /\ jobs[k].s <= jobs[k].e) =>
            Cardinality(jobs[k].out) = Cardinality(in_range(jobs[k].s, jobs[k].e))

\* bytes of the resource the chunks of a plan ask for, chunk by chunk
RECURSIVE planned_bytes(_)
planned_bytes(chunks) ==
    IF chunks = << >> THEN 0
    ELSE Cardinality(Requested(<< chunks[1] >>) \cap 0..(ct_len - 1))
           + planned_bytes(Tail(chunks))

\* concurrent_download has submitted the jobs of the plan and set the
\* threshold; no job has started
SessionStart ==
    /\ pc = "recv"
    /\ count = 0 /\ retries = 0 /\ data = << >>
    /\ \A k \in 1..Len(jobs) : jobs[k].st = "queued"

\* C29: at the start of every concurrent session the threshold equals the
\* number of bytes of the resource the session's plan covers, whatever the
\* resume flag and whichever of the destination file and the '.st' file
\* exist.
C29_ThresholdIsPlanned ==
    SessionStart => threshold = planned_bytes(JobChunks)

\* the bytes a record of the state log describes are in the file f
in_file(rec, f) ==
    \A b \in rec[2]..(rec[2] + rec[1] - 1) : b \in DOMAIN f /\ f[b] = Src(b)

\* C30: write before log.  The step that puts the record of a result
\* message into the state log finds the bytes of the message already in the
\* destination file, and at every point at which the process can stop every
\* record of the log describes bytes that are in the file.
C30_WriteBeforeLog ==
    /\ [][ (pc = "log" /\ st_log' # st_log) =>
              /\ in_file(st_record(msg), file)
              /\ \E r \in 1..Len(st_log') : st_log'[r] = st_record(msg) ]_vars
    /\ [](\A r \in 1..Len(st_log) : in_file(st_log[r], file))

\* a process was killed after it had logged two result messages
C30_Witness ==
    /\ pc = "killed"
    /\ Len(st_log) >= 2
    /\ st_log[1] # st_log[2]
    /\ Covered(st_log) = Written

\* C31: whatever state log earlier sessions left on disk, a session that
\* plans from it does not fail in an unsigned subtraction ('offset - 1',
\* 'ct_len - i') and gets only chunks with start <= end <= total_size.
C31_ResumePlanInBounds ==
    [][ (pc \notin Running /\ nsess' = nsess + 1) =>
          /\ pc' # "panic"
          /\ opts'.chunk_sizes # None =>
                \A c \in 1..Len(opts'.chunk_sizes[1]) :
                    /\ 0 <= opts'.chunk_sizes[1][c][1]
                    /\ opts'.chunk_sizes[1][c][1] <= opts'.chunk_sizes[1][c][2]
                    /\ opts'.chunk_sizes[1][c][2] <= ct_len ]_vars

\* C32: in every session that reaches concurrent_download, bytes_on_disk is
\* at most the content length, so 'ct_len - bytes_on_disk' does not
\* underflow.
C32_ThresholdNoUnderflow ==
    (pc = "concurrent") => unwrap_or(opts.bytes_on_disk, 0) <= ct_len

\* C33: a concurrent download that is not a resume starts with an empty
\* state log, whatever '.st' file an earlier run left.
C33_FreshLogEmpty ==
    (pc = "download" /\ opts.concurrent /\ ~opts.resume) => st_log = << >>

\* C36: retry exhaustion ends the process with a non-zero exit status.
C36_ExhaustionExitsNonZero ==
    (pc = "exit0") => exit_status(pc) # 0

\* C34: within one job's stream the offsets are contiguous and strictly
\* increasing.  A step in which a job for chunk (s, e) sends a message puts
\* exactly one message of at least one byte on the results channel; its
\* offset is s when it is the job's first message and otherwise the offset of
\* the job's previous message plus that message's byte count, that is, s plus
\* the bytes the job has sent so far; the job's cursor then stands behind it.
C34_StreamContiguous ==
    [][ (pc \in Running /\ Len(jobs') = Len(jobs) /\ jobs' # jobs) =>
          \A k \in 1..Len(jobs) : (jobs'[k].out # jobs[k].out) =>
             /\ Len(data') = Len(data) + 1
             /\ SubSeq(data', 1, Len(data)) = data
             /\ data'[Len(data')].bc >= 1
             /\ data'[Len(data')].offset = jobs[k].s + Cardinality(jobs[k].out)
             /\ jobs[k].out = {} => data'[Len(data')].offset = jobs[k].s
             /\ jobs'[k].pos = data'[Len(data')].offset + data'[Len(data')].bc
             /\ jobs'[k].out = jobs[k].s..(jobs'[k].pos - 1) ]_vars

\* two messages of one job wait on the results channel, the second one
\* right behind the first, and the job's cursor stands behind the second
C34_Witness ==
    /\ pc \in InLoop
    /\ Len(data) >= 2
    /\ data[2].offset = data[1].offset + data[1].bc
    /\ \E k \in 1..Len(jobs) :
          /\ jobs[k].s = data[1].offset
          /\ jobs[k].pos = data[2].offset + data[2].bc
          /\ Cardinality(jobs[k].out) = data[1].bc + data[2].bc

\* C35: a local I/O failure is fatal at once.  The step in which
\* on_concurrent_content fails (seek, write or flush of the destination
\* file, or the append to the state log) ends the process with a non-zero
\* status: no failure message is taken and no job re-submitted in it, the
\* state log still exists afterwards and has lost no line, and a failure of
\* the file write leaves the log as it was.
C35_LocalIoFatal ==
    [][ (pc \in InLoop /\ pc' = "error") =>
          /\ exit_status(pc') # 0
          /\ nhandled' = nhandled
          /\ st_exists'
          /\ Len(st_log') >= Len(st_log)
          /\ pc = "recv" => st_log' = st_log ]_vars

\* a run that had logged a record ended with an error; the log is on disk
C35_Witness ==
    /\ pc = "error"
    /\ st_exists
    /\ st_log # << >>
    /\ Written # {}

\* C37: the GET of HttpDownload::download carries a Range header only when
\* the HEAD response advertised byte ranges; so a body is appended to an
\* existing partial file only from the offset the file ends at, never from
\* the start of the resource.
C37_RangeOnlyWhenAdvertised ==
    /\ (pc = "download" /\ ~server.accept_ranges) => ~get_has_range
    /\ (pc = "single" /\ file_w.append) => resp >= unwrap_or(opts.bytes_on_disk, 0)

====
